---- MODULE Spec2Model ----
(***************************************************************************)
(* Sega "segacrp2" Z80 encryption (src/devices/machine/segacrp2_device.cpp) *)
(*                                                                         *)
(* A segacrp2_z80_device is a Z80 whose program ROM is encrypted.  At      *)
(* device_start the base Z80 is started and the device's decrypt() runs    *)
(* decode() once over the first 0x8000 bytes of its ROM region: the data   *)
(* decoding is written back into the region, the opcode decoding into the  *)
(* m_decrypted share.  The key (xor_table, swap_table) is a compiled-in    *)
(* constant of each device type; the four 317-000x devices share one table *)
(* of 128 + 3 entries and pass a pointer shifted by 0..3 entries.          *)
(*                                                                         *)
(* Buffers are byte arrays.  They are held as pages of 256 bytes           *)
(* (buf[a \div 256][a % 256]) so that one store copies one page.           *)
(*                                                                         *)
(* MFA "Mikrocomputer fuer Ausbildung" (src/mame/skeleton/mfabfz.cpp)      *)
(*                                                                         *)
(* The mfacpm machine has a 2K boot ROM at 0x0000-0x07ff that a memory     *)
(* view banks out: machine_reset selects the ROM, ram_r selects the RAM.   *)
(*                                                                         *)
(* The mfabfz machine has a cassette interface on its second UART: the     *)
(* handlers of the UART clock, kansas_w and kansas_r, turn the bit sent    *)
(* into a square wave of 2400 or 3600 Hz while the cassette records, and   *)
(* the wave played back into the bit received.                             *)
(***************************************************************************)
EXTENDS Integers, Sequences, FiniteSets, TLC

VARIABLES
  pc,         \* position of the device: "configured", "z80_started", "started";
              \* of a loop body taken alone: "body", "row", "stored";
              \* of a byte transform taken alone: "transform", "transformed",
              \* "transformed_twice";
              \* of the mfacpm machine: "mfacpm", "mfacpm_running";
              \* of the mfabfz machine: "mfabfz", "mfabfz_running"
  dev,        \* the device type chosen by the machine configuration
  image,      \* which encrypted image was loaded into the ROM region
  fill,       \* the byte the m_decrypted share held before the start
  rom,        \* memregion(tag())->base(): the ROM region
  decrypted,  \* m_decrypted: the decrypted-opcodes share
  key_xor,    \* history: the xor_table pointer decode was called with
  key_swap,   \* history: the swap_table pointer decode was called with
  rows,       \* history: the row decode computed at each address
  wr_rom,     \* history: number of stores decode made to each rom byte
  wr_dec,     \* history: number of stores decode made to each decrypted byte
  iters,      \* history: number of loop bodies decode executed
  body,       \* one loop body taken alone: its address, byte read, row and stores
  m_bootview,    \* mfacpm: the entry of m_bootview selected (NoView: none)
  bank_address,  \* mfacpm: what m_bankswitch->read() returns, the DIP setting
  m_ram,         \* mfacpm: the bytes of the RAM device, by offset from 0x0800
  bootview_ram,  \* mfacpm: the bytes of the RAM of m_bootview[1]
  access,        \* mfacpm, history: the last operation, its address and byte
  uart_rxd,      \* m_uart: the level last written with write_rxd
  uart_cts,      \* m_uart: the level last written with write_cts
  uart_txc,      \* m_uart: the level last written with write_txc
  uart_rxc,      \* m_uart: the level last written with write_rxc
  clk,           \* mfabfz: the level of the signal of uart_clock
  cass_state,    \* mfabfz: the UI state of the cassette
  cass_ws,       \* mfabfz: whether m_cass->input() is above +0.04
  cass_output,   \* mfabfz: the level last given to m_cass->output
  m_cass_data,   \* mfabfz: u8 m_cass_data[5]
  m_cassoutbit,  \* mfabfz: the bit the UART sends
  m_cassbit,     \* mfabfz: the level of the wave
  m_cassold,     \* mfabfz: the bit latched for the period
  enc,           \* mfabfz, history: the ticks and toggles of kansas_w
  dec            \* mfabfz, history: the ticks and writes of kansas_r

\* the variables of the segacrp2 device
segacrp2_vars == << dev, image, fill, rom, decrypted, key_xor, key_swap, rows,
                    wr_rom, wr_dec, iters, body >>

\* the variables of the mfacpm machine
mfacpm_vars == << m_bootview, bank_address, m_ram, bootview_ram, access >>

\* the lines of the UART m_uart
uart_vars == << uart_rxd, uart_cts, uart_txc, uart_rxc >>

\* the variables of the mfabfz machine
mfabfz_vars == << clk, cass_state, cass_ws, cass_output, m_cass_data, m_cassoutbit,
                 m_cassbit, m_cassold, enc, dec >>

\* the variables of the MFA machines
mfa_vars == << mfacpm_vars, mfabfz_vars, uart_vars >>

vars == << pc, segacrp2_vars, mfa_vars >>

------------------------------------------------------------------------------
(* Bounds of the model *)

\* number of distinct encrypted images the ROM region may be loaded with
NumImages == 2

\* number of bytes the buffers hold past the 0x8000 bytes decode works on
TailLen == 2

\* number of addresses of each row at which a loop body is taken alone
AddrsPerRow == 2

------------------------------------------------------------------------------
(* Program constants *)

\* for (int a = 0x0000; a < 0x8000; a++)
LoopEnd == 32768

\* const uint8_t xor_table[128], const int swap_table[128]
TableLen == 128

\* the values of uint8_t
Byte == 0..255

------------------------------------------------------------------------------
(* Bytes, bits and buffers *)

Bit(v, n) == (v \div (2 ^ n)) % 2

\* conversion to uint8_t on a store
U8(v) == v % 256

\* C's ^ on two bytes
RECURSIVE XorBits(_, _, _)
XorBits(x, y, n) ==
  IF n = 0 THEN 0
  ELSE ((x + y) % 2) + 2 * XorBits(x \div 2, y \div 2, n - 1)

\* x ^ y, tabulated over the bytes
XorTab == [x \in Byte |-> [y \in Byte |-> XorBits(x, y, 8)]]

Xor(x, y) == XorTab[x][y]

\* bitswap<N>(val, b[N-1], ..., b[0]): bit i of the result is bit b[i] of val;
\* bits lists b[N-1] first
RECURSIVE BitSwapFrom(_, _, _)
BitSwapFrom(val, bits, i) ==
  IF i > Len(bits) THEN 0
  ELSE Bit(val, bits[i]) * (2 ^ (Len(bits) - i)) + BitSwapFrom(val, bits, i + 1)

BitSwap(val, bits) == BitSwapFrom(val, bits, 1)

BufLen == LoopEnd + TailLen

PageLen(p) == IF 256 * (p + 1) <= BufLen THEN 256 ELSE BufLen - 256 * p

\* a buffer of BufLen bytes, each of them v
Filled(v) ==
  [p \in 0..((BufLen - 1) \div 256) |-> [o \in 0..(PageLen(p) - 1) |-> v]]

Rd(buf, a) == buf[a \div 256][a % 256]

Wr(buf, a, v) == [buf EXCEPT ![a \div 256][a % 256] = v]

\* a C pointer into a constant table: arr + off
Ptr(arr, off) == [arr |-> arr, off |-> off]

\* p[i] for a pointer p
At(p, i) == p.arr[p.off + i + 1]

------------------------------------------------------------------------------
(* The keys *)

\* xor_table of nec_315_5136_device (source lines 116-125), 128 entries
xor_table_315_5136 ==
  <<   0,  64,  16,  80,   4,  68,  20,  84,   1,  65,  17,  81,   5,  69,  21,  85,
       0,  64,  16,  80,   4,  68,  20,  84,   1,  65,  17,  81,   5,  69,  21,  85,
       0,  64,  16,  80,   4,  68,  20,  84,   1,  65,  17,  81,   5,  69,  21,  85,
       0,  64,  16,  80,   4,  68,  20,  84,   1,  65,  17,  81,   5,  69,  21,  85,
      80,  16,  68,   4,  84,  20,  65,   1,  81,  17,  69,   5,  85,  21,  64,   0,
      80,  16,  68,   4,  84,  20,  65,   1,  81,  17,  69,   5,  85,  21,  64,   0,
      80,  16,  68,   4,  84,  20,  65,   1,  81,  17,  69,   5,  85,  21,  64,   0,
      80,  16,  68,   4,  84,  20,  65,   1,  81,  17,  69,   5,  85,  21,  64,   0 >>

\* swap_table of nec_315_5136_device (source lines 127-143), 128 entries
swap_table_315_5136 ==
  <<  20,  20,  20,  20,  20,  20,  20,  20,  20,  20,  20,  20,  20,  20,  20,  20,
      21,  21,  21,  21,  21,  21,  21,  21,  21,  21,  21,  21,  21,  21,  21,  21,
      22,  22,  22,  22,  22,  22,  22,  22,  22,  22,  22,  22,  22,  22,  22,  22,
      23,  23,  23,  23,  23,  23,  23,  23,  23,  23,  23,  23,  23,  23,  23,  23,
       0,   0,   0,   0,   0,   0,   0,   0,   0,   0,   0,   0,   0,   0,   1,   1,
       1,   1,   1,   1,   1,   1,   1,   1,   1,   1,   1,   1,   1,   1,   2,   2,
       2,   2,   2,   2,   2,   2,   2,   2,   2,   2,   2,   2,   2,   2,   3,   3,
       3,   3,   3,   3,   3,   3,   3,   3,   3,   3,   3,   3,   3,   3,   4,   4 >>

\* xor_table of sega_315_5177_device (source lines 157-170), 128 entries
xor_table_315_5177 ==
  <<   4,  84,  81,  21,  64,  68,   1,  81,  85,  16,  68,  65,   5,  85,  80,  20,
      65,  69,   0,  80,  84,  17,  69,  64,   4,  84,  81,  21,  64,  68,   1,  81,
      85,  16,  68,  65,   5,  85,  80,  20,  65,  69,   0,  80,  84,  17,  69,  64,
       4,  84,  81,  21,  64,  68,   1,  81,  85,  16,  68,  65,   5,  85,  80,  20,
       4,  84,  81,  21,  64,  68,   1,  81,  85,  16,  68,  65,   5,  85,  80,  20,
      65,  69,   0,  80,  84,  17,  69,  64,   4,  84,  81,  21,  64,  68,   1,  81,
      85,  16,  68,  65,   5,  85,  80,  20,  65,  69,   0,  80,  84,  17,  69,  64,
       4,  84,  81,  21,  64,  68,   1,  81,  85,  16,  68,  65,   5,  85,  80,  20 >>

\* swap_table of sega_315_5177_device (source lines 172-201), 128 entries
swap_table_315_5177 ==
  <<   0,   0,   0,   0,   1,   1,   1,   1,   1,   2,   2,   2,   2,   2,   3,   3,
       3,   3,   4,   4,   4,   4,   4,   5,   5,   5,   5,   5,   6,   6,   6,   6,
       6,   7,   7,   7,   7,   7,   8,   8,   8,   8,   9,   9,   9,   9,   9,  10,
      10,  10,  10,  10,  11,  11,  11,  11,  11,  12,  12,  12,  12,  12,  13,  13,
       8,   8,   8,   8,   9,   9,   9,   9,   9,  10,  10,  10,  10,  10,  11,  11,
      11,  11,  12,  12,  12,  12,  12,  13,  13,  13,  13,  13,  14,  14,  14,  14,
      14,  15,  15,  15,  15,  15,  16,  16,  16,  16,  17,  17,  17,  17,  17,  18,
      18,  18,  18,  18,  19,  19,  19,  19,  19,  20,  20,  20,  20,  20,  21,  21 >>

\* xor_table of sega_315_5176_device (source lines 213-226), 128 entries
xor_table_315_5176 ==
  <<  68,   1,  81,  21,  64,   4,  84,  17,  69,   0,  80,  20,  65,   5,  85,  16,
      68,   1,  81,  21,  64,   4,  84,  17,  69,   0,  80,  20,  65,   5,  85,  16,
      68,   1,  81,  21,  64,   4,  84,  17,  69,   0,  80,  20,  65,   5,  85,  16,
      68,   1,  81,  21,  64,   4,  84,  17,  69,   0,  80,  20,  65,   5,  85,  16,
      68,   1,  81,  21,  64,   4,  84,  17,  69,   0,  80,  20,  65,   5,  85,  16,
      68,   1,  81,  21,  64,   4,  84,  17,  69,   0,  80,  20,  65,   5,  85,  16,
      68,   1,  81,  21,  64,   4,  84,  17,  69,   0,  80,  20,  65,   5,  85,  16,
      68,   1,  81,  21,  64,   4,  84,  17,  69,   0,  80,  20,  65,   5,  85,  16 >>

\* swap_table of sega_315_5176_device (source lines 228-245), 128 entries
swap_table_315_5176 ==
  <<   0,   0,   0,   0,   1,   1,   1,   1,   1,   2,   2,   2,   2,   2,   2,   3,
       3,   3,   3,   3,   4,   4,   4,   4,   4,   5,   5,   5,   5,   5,   5,   6,
       6,   6,   6,   6,   7,   7,   7,   7,   7,   8,   8,   8,   8,   8,   8,   9,
       9,   9,   9,   9,  10,  10,  10,  10,  10,  11,  11,  11,  11,  11,  11,  12,
       8,   8,   8,   8,   9,   9,   9,   9,   9,  10,  10,  10,  10,  10,  10,  11,
      11,  11,  11,  11,  12,  12,  12,  12,  12,  13,  13,  13,  13,  13,  13,  14,
      14,  14,  14,  14,  15,  15,  15,  15,  15,  16,  16,  16,  16,  16,  16,  17,
      17,  17,  17,  17,  18,  18,  18,  18,  18,  19,  19,  19,  19,  19,  19,  20 >>

\* xor_table of sega_315_5162_device (source lines 259-268), 128 entries
xor_table_315_5162 ==
  <<  64,  16,  80,   4,  68,  20,  84,   1,  65,  17,  81,   5,  69,  21,  85,   0,
      64,  16,  80,   4,  68,  20,  84,   1,  65,  17,  81,   5,  69,  21,  85,   0,
      64,  16,  80,   4,  68,  20,  84,   1,  65,  17,  81,   5,  69,  21,  85,   0,
      64,  16,  80,   4,  68,  20,  84,   1,  65,  17,  81,   5,  69,  21,  85,   0,
      64,  16,  80,   4,  68,  20,  84,   1,  65,  17,  81,   5,  69,  21,  85,   0,
      64,  16,  80,   4,  68,  20,  84,   1,  65,  17,  81,   5,  69,  21,  85,   0,
      64,  16,  80,   4,  68,  20,  84,   1,  65,  17,  81,   5,  69,  21,  85,   0,
      64,  16,  80,   4,  68,  20,  84,   1,  65,  17,  81,   5,  69,  21,  85,   0 >>

\* swap_table of sega_315_5162_device (source lines 270-279), 128 entries
swap_table_315_5162 ==
  <<   4,   4,   4,   4,   4,   4,   4,   4,   4,   4,   4,   4,   4,   4,   4,   5,
       5,   5,   5,   5,   5,   5,   5,   5,   5,   5,   5,   5,   5,   5,   5,   6,
       6,   6,   6,   6,   6,   6,   6,   6,   6,   6,   6,   6,   6,   6,   6,   7,
       7,   7,   7,   7,   7,   7,   7,   7,   7,   7,   7,   7,   7,   7,   7,   8,
       8,   8,   8,   8,   8,   8,   8,   8,   8,   8,   8,   8,   8,   8,   8,   9,
       9,   9,   9,   9,   9,   9,   9,   9,   9,   9,   9,   9,   9,   9,   9,  10,
      10,  10,  10,  10,  10,  10,  10,  10,  10,  10,  10,  10,  10,  10,  10,  11,
      11,  11,  11,  11,  11,  11,  11,  11,  11,  11,  11,  11,  11,  11,  11,  12 >>

\* xor_table of sega_315_5178_device (source lines 293-308), 128 entries
xor_table_315_5178 ==
  <<   0,  85,  69,   5,  17,  65,   1,  20,  68,  80,  16,   0,  85,  21,   5,  81,
      65,   1,  20,  68,   4,  16,  64,  85,  21,   5,  81,  17,   1,  84,  68,   4,
      16,  64,   0,  21,  69,  81,  17,   1,  84,  20,   4,  80,  64,   0,  21,  69,
       5,  17,  65,  84,  20,   4,  80,  16,   0,  85,  69,   5,  17,  65,   1,  20,
       0,  85,  69,   5,  17,  65,   1,  20,  68,  80,  16,   0,  85,  21,   5,  81,
      65,   1,  20,  68,   4,  16,  64,  85,  21,   5,  81,  17,   1,  84,  68,   4,
      16,  64,   0,  21,  69,  81,  17,   1,  84,  20,   4,  80,  64,   0,  21,  69,
       5,  17,  65,  84,  20,   4,  80,  16,   0,  85,  69,   5,  17,  65,   1,  20 >>

\* swap_table of sega_315_5178_device (source lines 310-327), 128 entries
swap_table_315_5178 ==
  <<   2,   3,   5,   7,   1,   3,   5,   7,   1,   3,   5,   7,   0,   2,   4,   6,
       0,   2,   4,   6,   0,   2,   4,   5,   7,   1,   3,   5,   7,   1,   3,   5,
       7,   1,   3,   4,   6,   0,   2,   4,   6,   0,   2,   4,   6,   8,   1,   3,
       5,   7,   1,   3,   5,   7,   1,   3,   5,   6,   0,   2,   4,   6,   0,   2,
      10,  11,  13,  15,   9,  11,  13,  15,   9,  11,  13,  15,   8,  10,  12,  14,
       8,  10,  12,  14,   8,  10,  12,  13,  15,   9,  11,  13,  15,   9,  11,  13,
      15,   9,  11,  12,  14,   8,  10,  12,  14,   8,  10,  12,  14,  16,   9,  11,
      13,  15,   9,  11,  13,  15,   9,  11,  13,  14,   8,  10,  12,  14,   8,  10 >>

\* xor_table of sega_315_5179_device (source lines 340-352), 128 entries
xor_table_315_5179 ==
  <<   0,  69,  65,  20,  16,  85,  81,   1,   4,  64,  69,  17,  20,  80,   0,   5,
      65,  68,  16,  21,  81,  84,   4,   0,  69,  65,  20,  16,  85,   5,   1,  68,
      64,  21,  17,  84,  80,   0,   5,  65,  68,  16,  21,  81,   1,   4,  64,  69,
      17,  20,  80,  85,   5,   1,  68,  64,  21,  17,  84,   4,   0,  69,  65,  20,
      80,   0,   5,  65,  68,  16,  21,  81,  84,   4,   0,  69,  65,  20,  80,  85,
       5,   1,  68,  64,  21,  17,  84,  80,   0,   5,  65,  68,  16,  85,  81,   1,
       4,  64,  69,  17,  20,  80,  85,   5,   1,  68,  64,  21,  81,  84,   4,   0,
      69,  65,  20,  16,  85,  81,   1,   4,  64,  69,  17,  84,  80,   0,   5,  65 >>

\* swap_table of sega_315_5179_device (source lines 354-370), 128 entries
swap_table_315_5179 ==
  <<   8,   9,  11,  13,  15,   0,   2,   4,   6,   8,   9,  11,  13,  15,   1,   2,
       4,   6,   8,   9,  11,  13,  15,   1,   2,   4,   6,   8,   9,  11,  13,  15,
       1,   2,   4,   6,   8,  10,  11,  13,  15,   1,   2,   4,   6,   8,  10,  11,
      13,  15,   1,   2,   4,   6,   8,  10,  11,  13,  15,   1,   3,   4,   6,   8,
       7,   1,   2,   4,   6,   0,   1,   3,   5,   7,   1,   2,   4,   6,   0,   1,
       3,   5,   7,   1,   2,   4,   6,   0,   2,   3,   5,   7,   1,   2,   4,   6,
       0,   2,   3,   5,   7,   1,   2,   4,   6,   0,   2,   3,   5,   7,   1,   3,
       4,   6,   0,   2,   3,   5,   7,   1,   3,   4,   6,   0,   2,   4,   5,   7 >>

\* xor_table of sega_decode_317 (source lines 385-394), 131 entries
xor_table_317 ==
  <<   4,  84,  68,  20,  21,  21,  81,  65,  65,  20,  16,  80,  21,  85,  84,   5,
       4,  65,  81,   1,   5,  16,  85,  81,   5,   5,  84,  17,  69,   5,   4,  20,
      16,  85,   1,  65,  81,   5,  85,   4,  69,  65,  85,  20,  69,  16,   4,  69,
      85,  80,  64,   0,  17,  69,  21,   0,   1,   0,  64,   0,   1,  69,  17,   0,
      69,   0,  68,  84,  64,   4,   5,  21,  21,  16,  21,   4,   1,   5,  80,  17,
       0,  68,  68,   4,   4,   1,  80,   5,  81,   0,  69,  68,  80,  21,  84,  64,
      65,  69,  64,  16,  20,  21,  64,  81,  80,  80,  69,   0,  16,  21,   5,  81,
      80,  68,   1,  21,  64,   4,   1,  68,  80,  68,  80,  80,  80,  16,  68,   4,
      64,   4,  16 >>

\* swap_table of sega_decode_317 (source lines 396-405), 131 entries
swap_table_317 ==
  <<   7,   7,  12,   1,  18,  11,   8,  23,  21,  17,   0,  23,  22,   0,  21,  15,
      13,  19,  21,  20,  20,  12,  13,  10,  20,   0,  14,  18,   6,  18,   3,   5,
       5,  20,  20,  13,   8,   0,  20,  18,   4,  14,   8,   5,  17,   6,  22,  10,
       0,  21,   0,   1,   6,  11,  17,   9,  17,   3,   9,  21,   0,   4,  16,   1,
      13,  17,  21,   5,   3,   7,   2,  16,  18,  13,   6,  19,  11,  23,   3,  20,
       3,   2,  18,  10,  18,  23,  19,  23,   3,  15,   0,  10,   5,  12,   0,   0,
      11,  22,   8,  14,   8,   6,   1,  15,   7,  11,   2,  17,  10,  15,   8,  21,
      10,   0,   2,   6,   1,   1,   3,   1,  12,  18,  16,   5,   0,  15,  17,  15,
      10,  20,   1 >>

------------------------------------------------------------------------------
(* decode *)

\* a slip in swaptable: the entry { 4,6,2,0 } typed a second time in the place
\* of { 4,6,0,2 }
swaptable_repeated ==
  << <<6,4,2,0>>, <<4,6,2,0>>, <<2,4,6,0>>, <<0,4,2,6>>,
     <<6,2,4,0>>, <<6,0,2,4>>, <<6,4,0,2>>, <<2,6,4,0>>,
     <<4,2,6,0>>, <<4,6,2,0>>, <<6,0,4,2>>, <<0,6,4,2>>,
     <<4,0,6,2>>, <<0,4,6,2>>, <<6,2,0,4>>, <<2,6,0,4>>,
     <<0,6,2,4>>, <<2,0,6,4>>, <<0,2,6,4>>, <<4,2,0,6>>,
     <<2,4,0,6>>, <<4,0,2,6>>, <<2,0,4,6>>, <<0,2,4,6>> >>

\* static const uint8_t swaptable[24][4]
swaptable ==
  << <<6,4,2,0>>, <<4,6,2,0>>, <<2,4,6,0>>, <<0,4,2,6>>,
     <<6,2,4,0>>, <<6,0,2,4>>, <<6,4,0,2>>, <<2,6,4,0>>,
     <<4,2,6,0>>, <<4,6,0,2>>, <<6,0,4,2>>, <<0,6,4,2>>,
     <<4,0,6,2>>, <<0,4,6,2>>, <<6,2,0,4>>, <<2,6,0,4>>,
     <<0,6,2,4>>, <<2,0,6,4>>, <<0,2,6,4>>, <<4,2,0,6>>,
     <<2,4,0,6>>, <<4,0,2,6>>, <<2,0,4,6>>, <<0,2,4,6>> >>

\* bitswap<6>(a, 14, 12, 9, 6, 3, 0), tabulated over the indices of a buffer
RowTab ==
  [p \in 0..((BufLen - 1) \div 256) |->
    [o \in 0..(PageLen(p) - 1) |-> BitSwap(256 * p + o, <<14, 12, 9, 6, 3, 0>>)]]

\* a slip in row_of: address bit 10 taken where bit 9 is meant
row_of_a10(a) == BitSwap(a, <<14, 12, 10, 6, 3, 0>>)

\* a slip in row_of: address bit 13 taken where bit 12 is meant
row_of_a13(a) == BitSwap(a, <<14, 13, 9, 6, 3, 0>>)

\* const int row = bitswap<6>(a, 14, 12, 9, 6, 3, 0);
row_of(a) == Rd(RowTab, a)

\* tbl = swaptable[swap_table[i]]: tbl points to a row of swaptable, and is
\* held as the number of that row
tbl_of(swap_table, i) == At(swap_table, i)

\* a slip in bitswap8: the entries of tbl taken in the reverse order
bitswap8_reversed(src, tbl) ==
  BitSwap(src, <<7, swaptable[tbl + 1][4], 5, swaptable[tbl + 1][3],
                 3, swaptable[tbl + 1][2], 1, swaptable[tbl + 1][1]>>)

\* a slip in bitswap8: the first two arguments exchanged (tbl[0], 7, ...)
bitswap8_7_exchanged(src, tbl) ==
  BitSwap(src, <<swaptable[tbl + 1][1], 7, 5, swaptable[tbl + 1][2],
                 3, swaptable[tbl + 1][3], 1, swaptable[tbl + 1][4]>>)

\* bitswap<8>(src, 7, tbl[0], 5, tbl[1], 3, tbl[2], 1, tbl[3])
bitswap8(src, tbl) ==
  BitSwap(src, <<7, swaptable[tbl + 1][1], 5, swaptable[tbl + 1][2],
                 3, swaptable[tbl + 1][3], 1, swaptable[tbl + 1][4]>>)

\* bitswap8, tabulated over the rows of swaptable and the bytes
SwapTab == [tbl \in 0..(Len(swaptable) - 1) |-> [src \in Byte |-> bitswap8(src, tbl)]]

\* a slip in decode_byte: the ^ xor_table[i] left out
decode_byte_no_xor(src, tbl, xor_table, i) == SwapTab[tbl][src]

\* a slip in decode_byte: the ^ xor_table[i] applied to src, before the swap
decode_byte_xor_first(src, tbl, xor_table, i) == SwapTab[tbl][Xor(src, At(xor_table, i))]

\* bitswap<8>(src, 7, tbl[0], 5, tbl[1], 3, tbl[2], 1, tbl[3]) ^ xor_table[i]
decode_byte(src, tbl, xor_table, i) == Xor(SwapTab[tbl][src], At(xor_table, i))

\* a slip in store_decrypted: decrypted[a] ^= ... in the place of decrypted[a] = ...
store_decrypted_xor_assign(st, a, v) ==
  [st EXCEPT !.decrypted = Wr(@, a, U8(Xor(Rd(@, a), v))),
             !.wr_dec = Wr(@, a, Rd(@, a) + 1)]

\* decrypted[a] = ...: the store of the opcode decoding
store_decrypted(st, a, v) ==
  [st EXCEPT !.decrypted = Wr(@, a, U8(v)),
             !.wr_dec = Wr(@, a, Rd(@, a) + 1)]

\* rom[a] = ...: the store of the data decoding
store_rom(st, a, v) ==
  [st EXCEPT !.rom = Wr(@, a, U8(v)),
             !.wr_rom = Wr(@, a, Rd(@, a) + 1)]

\* a slip in decode_body: src read at a + 1 (while inside the loop's range)
decode_body_next_src(st, a, xor_table, swap_table) ==
  LET src  == Rd(st.rom, IF a + 1 < LoopEnd THEN a + 1 ELSE a)
      row  == row_of(a)
      st1  == store_decrypted(st, a,
                decode_byte(src, tbl_of(swap_table, 2 * row), xor_table, 2 * row))
      st2  == store_rom(st1, a,
                decode_byte(src, tbl_of(swap_table, 2 * row + 1), xor_table, 2 * row + 1))
  IN [st2 EXCEPT !.rows = Wr(@, a, row), !.iters = @ + 1]

\* a slip in decode_body: the data decoding made from the opcode decoding
\* just stored instead of from src
decode_body_chained(st, a, xor_table, swap_table) ==
  LET src  == Rd(st.rom, a)
      row  == row_of(a)
      st1  == store_decrypted(st, a,
                decode_byte(src, tbl_of(swap_table, 2 * row), xor_table, 2 * row))
      st2  == store_rom(st1, a,
                decode_byte(Rd(st1.decrypted, a), tbl_of(swap_table, 2 * row + 1),
                            xor_table, 2 * row + 1))
  IN [st2 EXCEPT !.rows = Wr(@, a, row), !.iters = @ + 1]

\* one execution of the body of decode's for loop, at address a
decode_body(st, a, xor_table, swap_table) ==
  LET src  == Rd(st.rom, a)
      row  == row_of(a)
      st1  == store_decrypted(st, a,
                decode_byte(src, tbl_of(swap_table, 2 * row), xor_table, 2 * row))
      st2  == store_rom(st1, a,
                decode_byte(src, tbl_of(swap_table, 2 * row + 1), xor_table, 2 * row + 1))
  IN [st2 EXCEPT !.rows = Wr(@, a, row), !.iters = @ + 1]

\* the iterations a = lo, lo + 1, ..., hi - 1 of the loop, in this order
\* (split in halves to bound the depth of the evaluation; the test on iters
\* makes the first half's result a value before the second half starts)
RECURSIVE decode_loop(_, _, _, _, _)
decode_loop(st, lo, hi, xor_table, swap_table) ==
  IF lo >= hi THEN st
  ELSE IF lo + 1 = hi THEN decode_body(st, lo, xor_table, swap_table)
  ELSE LET mid   == (lo + hi) \div 2
           first == decode_loop(st, lo, mid, xor_table, swap_table)
       IN IF first.iters >= 0
            THEN decode_loop(first, mid, hi, xor_table, swap_table)
            ELSE first

\* a slip in decode: the loop runs one address too far (a <= 0x8000)
decode_one_over(st, xor_table, swap_table) ==
  decode_loop([st EXCEPT !.key_xor = xor_table, !.key_swap = swap_table],
              0, LoopEnd + 1, xor_table, swap_table)

\* a slip in decode: the loop ends one address early (a < 0x7FFF)
decode_one_short(st, xor_table, swap_table) ==
  decode_loop([st EXCEPT !.key_xor = xor_table, !.key_swap = swap_table],
              0, LoopEnd - 1, xor_table, swap_table)

\* a decode that checks the buffers first: it returns at once unless they
\* hold exactly 0x8000 bytes
decode_length_checked(st, xor_table, swap_table) ==
  IF BufLen # LoopEnd
    THEN st
    ELSE decode_loop([st EXCEPT !.key_xor = xor_table, !.key_swap = swap_table],
                     0, LoopEnd, xor_table, swap_table)

\* static void decode(uint8_t *rom, uint8_t *decrypted,
\*                    const uint8_t xor_table[128], const int swap_table[128])
decode(st, xor_table, swap_table) ==
  decode_loop([st EXCEPT !.key_xor = xor_table, !.key_swap = swap_table],
              0, LoopEnd, xor_table, swap_table)

------------------------------------------------------------------------------
(* The devices: each decrypt() hands its key to decode *)

\* DEFINE_DEVICE_TYPE(...)
Devices ==
  { "nec_315_5136", "sega_315_5179", "sega_315_5178", "sega_315_5177",
    "sega_315_5176", "sega_315_5162",
    "sega_317_0004", "sega_317_0005", "sega_317_0006", "sega_317_0007" }

\* a slip in the tables of the 315-5136: each entry 2 * row + 1 a copy of the
\* entry 2 * row
nec_315_5136_tables_pairs_equal ==
  [xor_table  |-> Ptr([i \in 1..TableLen |-> xor_table_315_5136[i - ((i - 1) % 2)]], 0),
   swap_table |-> Ptr([i \in 1..TableLen |-> swap_table_315_5136[i - ((i - 1) % 2)]], 0)]

\* the xor_table and swap_table of nec_315_5136_device::decrypt()
nec_315_5136_tables ==
  [xor_table |-> Ptr(xor_table_315_5136, 0), swap_table |-> Ptr(swap_table_315_5136, 0)]

\* decode(memregion(tag())->base(), m_decrypted, xor_table, swap_table);
nec_315_5136_decrypt(st) ==
  decode(st, nec_315_5136_tables.xor_table, nec_315_5136_tables.swap_table)

\* the xor_table and swap_table of sega_315_5177_device::decrypt()
sega_315_5177_tables ==
  [xor_table |-> Ptr(xor_table_315_5177, 0), swap_table |-> Ptr(swap_table_315_5177, 0)]

\* decode(memregion(tag())->base(), m_decrypted, xor_table, swap_table);
sega_315_5177_decrypt(st) ==
  decode(st, sega_315_5177_tables.xor_table, sega_315_5177_tables.swap_table)

\* the xor_table and swap_table of sega_315_5176_device::decrypt()
sega_315_5176_tables ==
  [xor_table |-> Ptr(xor_table_315_5176, 0), swap_table |-> Ptr(swap_table_315_5176, 0)]

\* decode(memregion(tag())->base(), m_decrypted, xor_table, swap_table);
sega_315_5176_decrypt(st) ==
  decode(st, sega_315_5176_tables.xor_table, sega_315_5176_tables.swap_table)

\* the xor_table and swap_table of sega_315_5162_device::decrypt()
sega_315_5162_tables ==
  [xor_table |-> Ptr(xor_table_315_5162, 0), swap_table |-> Ptr(swap_table_315_5162, 0)]

\* decode(memregion(tag())->base(), m_decrypted, xor_table, swap_table);
sega_315_5162_decrypt(st) ==
  decode(st, sega_315_5162_tables.xor_table, sega_315_5162_tables.swap_table)

\* the xor_table and swap_table of sega_315_5178_device::decrypt()
sega_315_5178_tables ==
  [xor_table |-> Ptr(xor_table_315_5178, 0), swap_table |-> Ptr(swap_table_315_5178, 0)]

\* decode(memregion(tag())->base(), m_decrypted, xor_table, swap_table);
sega_315_5178_decrypt(st) ==
  decode(st, sega_315_5178_tables.xor_table, sega_315_5178_tables.swap_table)

\* a slip in sega_315_5179_device::decrypt(): the tables of sega_315_5178
sega_315_5179_tables_of_5178 == sega_315_5178_tables

\* the xor_table and swap_table of sega_315_5179_device::decrypt()
sega_315_5179_tables ==
  [xor_table |-> Ptr(xor_table_315_5179, 0), swap_table |-> Ptr(swap_table_315_5179, 0)]

\* decode(memregion(tag())->base(), m_decrypted, xor_table, swap_table);
sega_315_5179_decrypt(st) ==
  decode(st, sega_315_5179_tables.xor_table, sega_315_5179_tables.swap_table)

\* a slip in sega_317_tables: the shift applied to swap_table only
sega_317_tables_xor_unshifted(shift) ==
  [xor_table |-> Ptr(xor_table_317, 0), swap_table |-> Ptr(swap_table_317, shift)]

\* a slip in sega_decode_317: the window starts one entry late
sega_317_tables_one_late(shift) ==
  [xor_table |-> Ptr(xor_table_317, shift + 1), swap_table |-> Ptr(swap_table_317, shift + 1)]

\* xor_table + shift, swap_table + shift
sega_317_tables(shift) ==
  [xor_table |-> Ptr(xor_table_317, shift), swap_table |-> Ptr(swap_table_317, shift)]

\* decode(rom, decrypted, xor_table + shift, swap_table + shift);
sega_decode_317(st, shift) ==
  decode(st, sega_317_tables(shift).xor_table, sega_317_tables(shift).swap_table)

\* the shift each sega_317_000x_device::decrypt() passes to sega_decode_317
sega_317_0004_shift == 0

sega_317_0005_shift == 1

\* a slip in sega_317_0006_device::decrypt(): the shift of sega_317_0005
sega_317_0006_shift_of_0005 == sega_317_0005_shift

sega_317_0006_shift == 2

\* a slip in sega_317_0007_device::decrypt(): the shift of the 317-0004
sega_317_0007_shift_of_0004 == sega_317_0004_shift

sega_317_0007_shift == 3

sega_317_0004_decrypt(st) == sega_decode_317(st, sega_317_0004_shift)

sega_317_0005_decrypt(st) == sega_decode_317(st, sega_317_0005_shift)

sega_317_0006_decrypt(st) == sega_decode_317(st, sega_317_0006_shift)

sega_317_0007_decrypt(st) == sega_decode_317(st, sega_317_0007_shift)

\* the tables the decrypt() of a device of type d hands to decode
tables_of(d) ==
  CASE d = "nec_315_5136"  -> nec_315_5136_tables
    [] d = "sega_315_5177" -> sega_315_5177_tables
    [] d = "sega_315_5176" -> sega_315_5176_tables
    [] d = "sega_315_5162" -> sega_315_5162_tables
    [] d = "sega_315_5178" -> sega_315_5178_tables
    [] d = "sega_315_5179" -> sega_315_5179_tables
    [] d = "sega_317_0004" -> sega_317_tables(sega_317_0004_shift)
    [] d = "sega_317_0005" -> sega_317_tables(sega_317_0005_shift)
    [] d = "sega_317_0006" -> sega_317_tables(sega_317_0006_shift)
    [] d = "sega_317_0007" -> sega_317_tables(sega_317_0007_shift)

\* decrypt(): the virtual call, for a device of type d
decrypt(d, st) ==
  CASE d = "nec_315_5136"  -> nec_315_5136_decrypt(st)
    [] d = "sega_315_5177" -> sega_315_5177_decrypt(st)
    [] d = "sega_315_5176" -> sega_315_5176_decrypt(st)
    [] d = "sega_315_5162" -> sega_315_5162_decrypt(st)
    [] d = "sega_315_5178" -> sega_315_5178_decrypt(st)
    [] d = "sega_315_5179" -> sega_315_5179_decrypt(st)
    [] d = "sega_317_0004" -> sega_317_0004_decrypt(st)
    [] d = "sega_317_0005" -> sega_317_0005_decrypt(st)
    [] d = "sega_317_0006" -> sega_317_0006_decrypt(st)
    [] d = "sega_317_0007" -> sega_317_0007_decrypt(st)

------------------------------------------------------------------------------
(* The state machine *)

\* the encrypted image s, as loaded into the ROM region before the start
RomImage(s, a) == (37 * a + s * (a \div 256) + 170 * s) % 256

\* the ROM region loaded with image s
Loaded(s) ==
  [p \in 0..((BufLen - 1) \div 256) |->
    [o \in 0..(PageLen(p) - 1) |-> RomImage(s, 256 * p + o)]]

\* no row computed yet
NoRow == -1

\* no table
NoTable == Ptr(<< >>, 0)

\* no loop body taken alone
NoBody ==
  [a |-> -1, src |-> -1, row |-> NoRow, tbl_opcode |-> -1, tbl_data |-> -1,
   opcode |-> -1, data |-> -1]

\* the ROM region loaded with each of the images, tabulated
LoadedImages == [s \in 0..(NumImages - 1) |-> Loaded(s)]

\* the buffers of one value each that a configuration starts with, tabulated
FilledWith == [v \in {0, 255, NoRow} |-> Filled(v)]

\* no entry of a memory view selected
NoView == -1

\* no access made yet
NoAccess == [op |-> "none", addr |-> -1, offset |-> -1, data |-> -1]

\* no mfacpm machine in the system
mfacpm_absent ==
  /\ m_bootview = NoView
  /\ bank_address = 0
  /\ m_ram = << >>
  /\ bootview_ram = << >>
  /\ access = NoAccess

\* kansas_w has counted no tick
NoEnc == [ticks |-> 0, toggles |-> << >>, since |-> -1, gap |-> 0, gap_bit |-> -1,
          old_before |-> -1, outbit_before |-> -1, twobit |-> -1, toggled |-> FALSE,
          dec_from |-> -1]

\* kansas_r has counted no tick
NoDec == [elapsed |-> 0, transition |-> FALSE, writes |-> << >>, playing |-> FALSE,
          counted |-> FALSE]

\* no mfabfz machine in the system
mfabfz_absent ==
  /\ clk = 0
  /\ cass_state = "none"
  /\ cass_ws = 0
  /\ cass_output = 0
  /\ m_cass_data = << >>
  /\ m_cassoutbit = 0
  /\ m_cassbit = 0
  /\ m_cassold = 0
  /\ enc = NoEnc
  /\ dec = NoDec
  /\ uart_txc = 0
  /\ uart_rxc = 0

\* no MFA machine in the system
mfa_absent ==
  /\ mfacpm_absent
  /\ mfabfz_absent
  /\ uart_rxd = 1
  /\ uart_cts = 1

\* the regions a device of the configuration (s, f) starts with: the ROM region
\* holds image s, every byte of the m_decrypted share is f
StartRegions(s, f) ==
  [rom       |-> LoadedImages[s],
   decrypted |-> FilledWith[f],
   key_xor   |-> NoTable,
   key_swap  |-> NoTable,
   rows      |-> FilledWith[NoRow],
   wr_rom    |-> FilledWith[0],
   wr_dec    |-> FilledWith[0],
   iters     |-> 0]

Init ==
  /\ pc = "configured"
  /\ dev \in Devices
  /\ image \in 0..(NumImages - 1)
  /\ fill \in {0, 255}
  /\ \E r \in { StartRegions(image, fill) } :
       /\ rom = r.rom
       /\ decrypted = r.decrypted
       /\ key_xor = r.key_xor
       /\ key_swap = r.key_swap
       /\ rows = r.rows
       /\ wr_rom = r.wr_rom
       /\ wr_dec = r.wr_dec
       /\ iters = r.iters
  /\ body = NoBody
  /\ mfa_absent

\* what decrypt() works on, and what it leaves
Regions ==
  [rom |-> rom, decrypted |-> decrypted, key_xor |-> key_xor, key_swap |-> key_swap,
   rows |-> rows, wr_rom |-> wr_rom, wr_dec |-> wr_dec, iters |-> iters]

\* segacrp2_z80_device::device_start(), first statement: z80_device::device_start()
z80_device_start ==
  /\ pc = "configured"
  /\ pc' = "z80_started"
  /\ UNCHANGED mfa_vars
  /\ UNCHANGED << dev, image, fill, rom, decrypted, key_xor, key_swap, rows,
                  wr_rom, wr_dec, iters, body >>

\* a device whose decrypt() is also called again after the start (as from a
\* reset handler)
CallsDecrypt_again(d) == pc \in {"z80_started", "started"} /\ dev = d

\* segacrp2_z80_device::device_start(), second statement: decrypt(), the
\* virtual call that ends in the decrypt() of the device's type
CallsDecrypt(d) == pc = "z80_started" /\ dev = d

\* the return of decrypt(): r is what decode left
Decrypted(r) ==
  /\ rom' = r.rom
  /\ decrypted' = r.decrypted
  /\ key_xor' = r.key_xor
  /\ key_swap' = r.key_swap
  /\ rows' = r.rows
  /\ wr_rom' = r.wr_rom
  /\ wr_dec' = r.wr_dec
  /\ iters' = r.iters
  /\ pc' = "started"
  /\ UNCHANGED mfa_vars
  /\ UNCHANGED << dev, image, fill, body >>

nec_315_5136_device_decrypt ==
  /\ CallsDecrypt("nec_315_5136")
  /\ \E r \in { nec_315_5136_decrypt(Regions) } : Decrypted(r)

sega_315_5177_device_decrypt ==
  /\ CallsDecrypt("sega_315_5177")
  /\ \E r \in { sega_315_5177_decrypt(Regions) } : Decrypted(r)

sega_315_5176_device_decrypt ==
  /\ CallsDecrypt("sega_315_5176")
  /\ \E r \in { sega_315_5176_decrypt(Regions) } : Decrypted(r)

sega_315_5162_device_decrypt ==
  /\ CallsDecrypt("sega_315_5162")
  /\ \E r \in { sega_315_5162_decrypt(Regions) } : Decrypted(r)

sega_315_5178_device_decrypt ==
  /\ CallsDecrypt("sega_315_5178")
  /\ \E r \in { sega_315_5178_decrypt(Regions) } : Decrypted(r)

sega_315_5179_device_decrypt ==
  /\ CallsDecrypt("sega_315_5179")
  /\ \E r \in { sega_315_5179_decrypt(Regions) } : Decrypted(r)

sega_317_0004_device_decrypt ==
  /\ CallsDecrypt("sega_317_0004")
  /\ \E r \in { sega_317_0004_decrypt(Regions) } : Decrypted(r)

sega_317_0005_device_decrypt ==
  /\ CallsDecrypt("sega_317_0005")
  /\ \E r \in { sega_317_0005_decrypt(Regions) } : Decrypted(r)

sega_317_0006_device_decrypt ==
  /\ CallsDecrypt("sega_317_0006")
  /\ \E r \in { sega_317_0006_decrypt(Regions) } : Decrypted(r)

sega_317_0007_device_decrypt ==
  /\ CallsDecrypt("sega_317_0007")
  /\ \E r \in { sega_317_0007_decrypt(Regions) } : Decrypted(r)

Next ==
  \/ z80_device_start
  \/ nec_315_5136_device_decrypt
  \/ sega_315_5177_device_decrypt
  \/ sega_315_5176_device_decrypt
  \/ sega_315_5162_device_decrypt
  \/ sega_315_5178_device_decrypt
  \/ sega_315_5179_device_decrypt
  \/ sega_317_0004_device_decrypt
  \/ sega_317_0005_device_decrypt
  \/ sega_317_0006_device_decrypt
  \/ sega_317_0007_device_decrypt

Spec == Init /\ [][Next]_vars

\* the same machine, for the properties that set a run beside a second run of
\* decrypt()
SpecTwoRuns == Init /\ [][Next]_vars

-------------------------------------------------------------------------------
(* One body of decode's loop, taken alone: the address and the byte rom[a]  *)
(* are free, the tables are the ones the device's decrypt() passes.         *)

\* the address bits that bitswap<6>(a, 14, 12, 9, 6, 3, 0) leaves out
OtherBits(a) == BitSwap(a, <<13, 11, 10, 8, 7, 5, 4, 2, 1>>)

\* the values of the left-out bits at which bodies are taken
OtherBitsTaken == { (k * 365) % 512 : k \in 0..(AddrsPerRow - 1) }

\* the addresses at which bodies are taken: AddrsPerRow of each row
BodyAddrs == { a \in 0..(LoopEnd - 1) : OtherBits(a) \in OtherBitsTaken }

\* no buffer: the bodies taken alone read src from no region and record
\* their stores in body
NoBuf == << >>

\* decode is entered from the decrypt() of device d and stands at the top of
\* the body for address a
InitBody ==
  /\ pc = "body"
  /\ dev \in Devices
  /\ image = 0
  /\ fill = 0
  /\ rom = NoBuf
  /\ decrypted = NoBuf
  /\ key_xor = tables_of(dev).xor_table
  /\ key_swap = tables_of(dev).swap_table
  /\ rows = NoBuf
  /\ wr_rom = NoBuf
  /\ wr_dec = NoBuf
  /\ iters = 0
  /\ \E a \in BodyAddrs : body = [NoBody EXCEPT !.a = a]
  /\ mfa_absent

\* const uint8_t src = rom[a];  const int row = bitswap<6>(a, 14, 12, 9, 6, 3, 0);
body_src_row ==
  /\ pc = "body"
  /\ \E src \in Byte : body' = [body EXCEPT !.src = src, !.row = row_of(body.a)]
  /\ pc' = "row"
  /\ UNCHANGED mfa_vars
  /\ UNCHANGED << dev, image, fill, rom, decrypted, key_xor, key_swap, rows,
                  wr_rom, wr_dec, iters >>

\* tbl = swaptable[swap_table[2 * row]];      decrypted[a] = bitswap<8>(...) ^ xor_table[2 * row];
\* tbl = swaptable[swap_table[2 * row + 1]];  rom[a] = bitswap<8>(...) ^ xor_table[2 * row + 1];
body_stores ==
  /\ pc = "row"
  /\ body' =
       [body EXCEPT
          !.tbl_opcode = tbl_of(key_swap, 2 * body.row),
          !.opcode = decode_byte(body.src, tbl_of(key_swap, 2 * body.row),
                                 key_xor, 2 * body.row),
          !.tbl_data = tbl_of(key_swap, 2 * body.row + 1),
          !.data = decode_byte(body.src, tbl_of(key_swap, 2 * body.row + 1),
                               key_xor, 2 * body.row + 1)]
  /\ pc' = "stored"
  /\ UNCHANGED mfa_vars
  /\ UNCHANGED << dev, image, fill, rom, decrypted, key_xor, key_swap, rows,
                  wr_rom, wr_dec, iters >>

NextBody ==
  \/ body_src_row
  \/ body_stores

SpecBody == InitBody /\ [][NextBody]_vars

-------------------------------------------------------------------------------
(* The byte transform of decode, bitswap<8>(src, 7, tbl[0], ...) ^           *)
(* xor_table[i], taken alone: the selector, the XOR value and the byte are   *)
(* free.                                                                     *)

\* the XOR values taken: every value of the bits 0, 2, 4, 6, with the bits
\* 1, 3, 5, 7 all clear or all set
XorValues == { x \in Byte : \A k \in {1, 3, 5} : Bit(x, k) = Bit(x, 7) }

\* the transform is entered with the one-entry tables {x} and {s} and the
\* byte src
InitTransform ==
  /\ pc = "transform"
  /\ dev = "none"
  /\ image = 0
  /\ fill = 0
  /\ rom = NoBuf
  /\ decrypted = NoBuf
  /\ \E x \in XorValues : key_xor = Ptr(<<x>>, 0)
  /\ \E s \in 0..(Len(swaptable) - 1) : key_swap = Ptr(<<s>>, 0)
  /\ rows = NoBuf
  /\ wr_rom = NoBuf
  /\ wr_dec = NoBuf
  /\ iters = 0
  /\ \E src \in Byte : body = [NoBody EXCEPT !.src = src]
  /\ mfa_absent

\* tbl = swaptable[swap_table[i]];  bitswap<8>(src, 7, tbl[0], ...) ^ xor_table[i]
transform ==
  /\ pc = "transform"
  /\ body' = [body EXCEPT
                !.tbl_opcode = tbl_of(key_swap, 0),
                !.opcode = decode_byte(body.src, tbl_of(key_swap, 0), key_xor, 0)]
  /\ pc' = "transformed"
  /\ UNCHANGED mfa_vars
  /\ UNCHANGED << dev, image, fill, rom, decrypted, key_xor, key_swap, rows,
                  wr_rom, wr_dec, iters >>

\* the same transform, applied to the byte the first application gave
transform_again ==
  /\ pc = "transformed"
  /\ body' = [body EXCEPT
                !.tbl_data = tbl_of(key_swap, 0),
                !.data = decode_byte(body.opcode, tbl_of(key_swap, 0), key_xor, 0)]
  /\ pc' = "transformed_twice"
  /\ UNCHANGED mfa_vars
  /\ UNCHANGED << dev, image, fill, rom, decrypted, key_xor, key_swap, rows,
                  wr_rom, wr_dec, iters >>

NextTransform ==
  \/ transform
  \/ transform_again

SpecTransform == InitTransform /\ [][NextTransform]_vars

-------------------------------------------------------------------------------
(* The mfacpm machine: the boot ROM and its banking                          *)

\* no segacrp2 device in the system
segacrp2_absent ==
  /\ dev = "none"
  /\ image = 0
  /\ fill = 0
  /\ rom = NoBuf
  /\ decrypted = NoBuf
  /\ key_xor = NoTable
  /\ key_swap = NoTable
  /\ rows = NoBuf
  /\ wr_rom = NoBuf
  /\ wr_dec = NoBuf
  /\ iters = 0
  /\ body = NoBody

\* map(0x0000, 0x07ff).view(m_bootview);
BootEnd == 2047

\* map(0x0800, 0xffff).r(FUNC(mfacpm_state::ram_r)).w(m_ram, FUNC(ram_device::write));
RamBase == 2048

RamEnd == 65535

\* PORT_DIPSETTING(0x8000, DEF_STR( Off ))
BankOff == 32768

\* PORT_DIPSETTING(0xc000, DEF_STR( On ))
BankOn == 49152

\* the addresses the CPU accesses: the ends of the boot area and of the RAM
\* area, the two boundaries as addresses (0x8000, 0xc000) and the addresses
\* whose offsets from 0x0800 lie next to the boundaries (0x87ff, 0x8800,
\* 0xc7ff, 0xc800)
CpuAddrs == {0, BootEnd, RamBase, BankOff, BankOff + RamBase - 1, BankOff + RamBase,
             BankOn, BankOn + RamBase - 1, BankOn + RamBase, RamEnd}

\* the addresses of the boot area and the offsets of the RAM area among them
BootAddrs == { a \in CpuAddrs : a <= BootEnd }

RamOffsets == { a - RamBase : a \in { b \in CpuAddrs : b >= RamBase } }

\* the bytes the CPU writes
DataBytes == {0, 255}

\* the byte of the region "roms" at addr
RomByte(addr) == (addr + 195) % 256

\* the mfacpm machine is configured, with either setting of the DIP switch,
\* and not yet reset
InitMfacpm ==
  /\ pc = "mfacpm"
  /\ segacrp2_absent
  /\ mfabfz_absent
  /\ m_bootview = NoView
  /\ bank_address \in {BankOff, BankOn}
  /\ m_ram = [o \in RamOffsets |-> 0]
  /\ bootview_ram = [a \in BootAddrs |-> 0]
  /\ access = NoAccess
  /\ uart_rxd \in {0, 1}
  /\ uart_cts \in {0, 1}

\* void mfacpm_state::machine_reset()
mfacpm_state_machine_reset ==
  /\ pc \in {"mfacpm", "mfacpm_running"}
  /\ m_bootview' = 0
  /\ uart_rxd' = 1
  /\ uart_cts' = 0
  /\ access' = [NoAccess EXCEPT !.op = "machine_reset"]
  /\ pc' = "mfacpm_running"
  /\ UNCHANGED << bank_address, m_ram, bootview_ram, uart_txc, uart_rxc >>
  /\ UNCHANGED << segacrp2_vars, mfabfz_vars >>

\* the original MFA mode of the card: a read below the boundary brings the
\* ROM back
ram_r_select_mfa_mode(view, offset, bank) == IF offset >= bank THEN 1 ELSE 0

\* if (offset >= m_bankswitch->read()) m_bootview.select(1);
ram_r_select(view, offset, bank) == IF offset >= bank THEN 1 ELSE view

\* uint8_t mfacpm_state::ram_r(offs_t offset): a read of the CPU at
\* 0x0800-0xffff, offset counted from 0x0800
ram_r ==
  /\ pc = "mfacpm_running"
  /\ \E offset \in RamOffsets :
       /\ m_bootview' = ram_r_select(m_bootview, offset, bank_address)
       /\ access' = [op |-> "ram_r", addr |-> offset + RamBase, offset |-> offset,
                     data |-> m_ram[offset]]
  /\ UNCHANGED << pc, bank_address, m_ram, bootview_ram, uart_vars >>
  /\ UNCHANGED << segacrp2_vars, mfabfz_vars >>

\* ram_device::write: a write of the CPU at 0x0800-0xffff
ram_w ==
  /\ pc = "mfacpm_running"
  /\ \E offset \in RamOffsets : \E data \in DataBytes :
       /\ m_ram' = [m_ram EXCEPT ![offset] = data]
       /\ access' = [op |-> "ram_w", addr |-> offset + RamBase, offset |-> offset,
                     data |-> data]
  /\ UNCHANGED << pc, m_bootview, bank_address, bootview_ram, uart_vars >>
  /\ UNCHANGED << segacrp2_vars, mfabfz_vars >>

\* a read of the CPU at 0x0000-0x07ff: m_bootview[0] is the region "roms",
\* m_bootview[1] is RAM
bootview_r ==
  /\ pc = "mfacpm_running"
  /\ \E addr \in BootAddrs :
       access' = [op |-> "bootview_r", addr |-> addr, offset |-> addr,
                  data |-> IF m_bootview = 0 THEN RomByte(addr) ELSE bootview_ram[addr]]
  /\ UNCHANGED << pc, m_bootview, bank_address, m_ram, bootview_ram, uart_vars >>
  /\ UNCHANGED << segacrp2_vars, mfabfz_vars >>

\* a write of the CPU at 0x0000-0x07ff: lost in m_bootview[0], stored in
\* m_bootview[1]
bootview_w ==
  /\ pc = "mfacpm_running"
  /\ \E addr \in BootAddrs : \E data \in DataBytes :
       /\ bootview_ram' = IF m_bootview = 0 THEN bootview_ram
                          ELSE [bootview_ram EXCEPT ![addr] = data]
       /\ access' = [op |-> "bootview_w", addr |-> addr, offset |-> addr, data |-> data]
  /\ UNCHANGED << pc, m_bootview, bank_address, m_ram, uart_vars >>
  /\ UNCHANGED << segacrp2_vars, mfabfz_vars >>

\* the DIP switch "Bank Address (8000h/C000h)" is set the other way
bank_address_dip ==
  /\ pc = "mfacpm_running"
  /\ bank_address' \in {BankOff, BankOn} \ {bank_address}
  /\ access' = [NoAccess EXCEPT !.op = "dip"]
  /\ UNCHANGED << pc, m_bootview, m_ram, bootview_ram, uart_vars >>
  /\ UNCHANGED << segacrp2_vars, mfabfz_vars >>

NextMfacpm ==
  \/ mfacpm_state_machine_reset
  \/ ram_r
  \/ ram_w
  \/ bootview_r
  \/ bootview_w
  \/ bank_address_dip

SpecMfacpm == InitMfacpm /\ [][NextMfacpm]_vars

-------------------------------------------------------------------------------
(* The mfabfz machine: the cassette interface                                *)

\* the ticks kansas_r is followed for without a transition of the input
MaxElapsed == 34

\* u8 m_cass_data[5]{}; bool m_cassoutbit = false, m_cassbit = false,
\* m_cassold = false; the cassette is stopped; the machine is not yet reset
InitMfabfz ==
  /\ pc = "mfabfz"
  /\ segacrp2_absent
  /\ mfacpm_absent
  /\ clk = 0
  /\ cass_state = "stopped"
  /\ cass_ws = 0
  /\ cass_output = 0
  /\ m_cass_data = [i \in 0..4 |-> 0]
  /\ m_cassoutbit = 0
  /\ m_cassbit = 0
  /\ m_cassold = 0
  /\ enc = NoEnc
  /\ dec = NoDec
  /\ uart_rxd \in {0, 1}
  /\ uart_cts \in {0, 1}
  /\ uart_txc = 0
  /\ uart_rxc = 0

\* void mfabfz_state::machine_reset()
mfabfz_state_machine_reset ==
  /\ pc \in {"mfabfz", "mfabfz_running"}
  /\ m_cass_data' = [i \in 0..4 |-> 0]
  /\ m_cassoutbit' = 1
  /\ m_cassold' = 1
  /\ m_cassbit' = 1
  /\ uart_rxd' = 1
  /\ uart_cts' = 0
  /\ enc' = NoEnc
  /\ dec' = NoDec
  /\ pc' = "mfabfz_running"
  /\ UNCHANGED << clk, cass_state, cass_ws, cass_output, uart_txc, uart_rxc >>
  /\ UNCHANGED << segacrp2_vars, mfacpm_vars >>

\* the state of the machine the two handlers work on
Cass ==
  [data |-> m_cass_data, outbit |-> m_cassoutbit, bit |-> m_cassbit, old |-> m_cassold,
   state |-> cass_state, ws |-> cass_ws, output |-> cass_output,
   rxd |-> uart_rxd, txc |-> uart_txc, rxc |-> uart_rxc, enc |-> enc, dec |-> dec]

\* the half waves of a 1 bit begin with the short one
cycles_10_first == <<10, 11, 11>>

\* static u8 cycles[3] = { 11, 10, 11 };
cycles == <<11, 10, 11>>

\* void mfabfz_state::kansas_w(int state), called in the state c
kansas_w(state, c) ==
  LET twobit == c.data[3] % 64
      latch == twobit = 0
      old1 == IF latch THEN c.outbit ELSE c.old
      d2a == IF latch THEN 0 ELSE c.data[2]
      d4a == IF latch THEN 0 ELSE c.data[4]
      toggle == d2a = 0
      bit1 == IF toggle THEN 1 - c.bit ELSE c.bit
      out1 == IF toggle THEN (IF bit1 = 1 THEN -1 ELSE 1) ELSE c.output
      d4b == IF toggle /\ old1 = 1 THEN (IF d4a + 1 > 2 THEN 0 ELSE d4a + 1) ELSE d4a
      d2b == IF toggle THEN (IF old1 = 1 THEN cycles[d4b + 1] ELSE 16) ELSE d2a
      at == IF latch THEN 0 ELSE c.enc.ticks
      enc1 == [ticks |-> at + 1,
               toggles |-> IF toggle THEN Append(IF latch THEN << >> ELSE c.enc.toggles, at)
                           ELSE IF latch THEN << >> ELSE c.enc.toggles,
               since |-> IF toggle THEN 0
                         ELSE IF c.enc.since = -1 THEN -1 ELSE c.enc.since + 1,
               gap |-> IF toggle THEN c.enc.since + 1 ELSE c.enc.gap,
               gap_bit |-> IF toggle THEN c.old ELSE c.enc.gap_bit,
               old_before |-> c.old,
               outbit_before |-> c.outbit,
               twobit |-> twobit,
               toggled |-> toggle,
               dec_from |-> d2b]
      counted == [c EXCEPT !.old = old1, !.bit = bit1, !.output = out1,
                           !.data = [c.data EXCEPT ![2] = (d2b - 1) % 256,
                                                   ![3] = (c.data[3] + 1) % 256,
                                                   ![4] = d4b],
                           !.enc = enc1]
  IN  [(IF c.state = "record" /\ state = 1 THEN counted ELSE c) EXCEPT !.txc = state]

\* a half wave of fewer than 11 ticks stands for 1
kansas_r_bit_below_11(ticks) == IF ticks < 11 THEN 1 ELSE 0

\* (m_cass_data[1] < 14) ? 1 : 0
kansas_r_bit(ticks) == IF ticks < 14 THEN 1 ELSE 0

\* void mfabfz_state::kansas_r(int state), called in the state c
kansas_r(state, c) ==
  LET d1a == (c.data[1] + 1) % 256
      over == d1a > 32
      d1b == IF over THEN 32 ELSE d1a
      playing == c.state = "play"
      transition == playing /\ c.ws # c.data[0]
      writes == (IF over THEN <<1>> ELSE << >>)
                  \o (IF transition THEN << kansas_r_bit(d1b) >> ELSE << >>)
      before == IF c.dec.transition THEN 0 ELSE c.dec.elapsed
      dec1 == [elapsed |-> IF before < MaxElapsed THEN before + 1 ELSE MaxElapsed,
               transition |-> transition,
               writes |-> writes,
               playing |-> playing,
               counted |-> TRUE]
      counted == [c EXCEPT !.data = [c.data EXCEPT ![0] = IF transition THEN c.ws ELSE @,
                                                   ![1] = IF transition THEN 0 ELSE d1b],
                           !.rxd = IF writes = << >> THEN @ ELSE writes[Len(writes)],
                           !.rxc = IF playing THEN state ELSE @,
                           !.dec = dec1]
  IN  IF state = 1 THEN counted ELSE [c EXCEPT !.rxc = state]

\* uart_clock.signal_handler().set(FUNC(mfabfz_state::kansas_w));
\* uart_clock.signal_handler().append(FUNC(mfabfz_state::kansas_r));
\* the signal of the clock changes and both handlers run, in this order
uart_clock ==
  /\ pc = "mfabfz_running"
  /\ clk' = 1 - clk
  /\ LET c == kansas_r(1 - clk, kansas_w(1 - clk, Cass))
     IN  /\ m_cass_data' = c.data
         /\ m_cassbit' = c.bit
         /\ m_cassold' = c.old
         /\ cass_output' = c.output
         /\ uart_rxd' = c.rxd
         /\ uart_txc' = c.txc
         /\ uart_rxc' = c.rxc
         /\ enc' = c.enc
         /\ dec' = c.dec
  /\ UNCHANGED << pc, cass_state, cass_ws, m_cassoutbit, uart_cts >>
  /\ UNCHANGED << segacrp2_vars, mfacpm_vars >>

\* m_uart->txd_handler().set([this] (bool state) { m_cassoutbit = state; });
txd_handler ==
  /\ pc = "mfabfz_running"
  /\ m_cassoutbit' = 1 - m_cassoutbit
  /\ UNCHANGED << pc, clk, cass_state, cass_ws, cass_output, m_cass_data, m_cassbit,
                  m_cassold, enc, dec, uart_vars >>
  /\ UNCHANGED << segacrp2_vars, mfacpm_vars >>

\* the cassette is set to record, or stopped while it records
cassette_record ==
  /\ pc = "mfabfz_running"
  /\ cass_state \in {"stopped", "record"}
  /\ cass_state' = IF cass_state = "stopped" THEN "record" ELSE "stopped"
  /\ UNCHANGED << pc, clk, cass_ws, cass_output, m_cass_data, m_cassoutbit, m_cassbit,
                  m_cassold, enc, dec, uart_vars >>
  /\ UNCHANGED << segacrp2_vars, mfacpm_vars >>

\* the cassette is set to play, or stopped while it plays
cassette_play ==
  /\ pc = "mfabfz_running"
  /\ cass_state \in {"stopped", "play"}
  /\ cass_state' = IF cass_state = "stopped" THEN "play" ELSE "stopped"
  /\ UNCHANGED << pc, clk, cass_ws, cass_output, m_cass_data, m_cassoutbit, m_cassbit,
                  m_cassold, enc, dec, uart_vars >>
  /\ UNCHANGED << segacrp2_vars, mfacpm_vars >>

\* the level of the tape crosses +0.04
cassette_input ==
  /\ pc = "mfabfz_running"
  /\ cass_ws' = 1 - cass_ws
  /\ UNCHANGED << pc, clk, cass_state, cass_output, m_cass_data, m_cassoutbit, m_cassbit,
                  m_cassold, enc, dec, uart_vars >>
  /\ UNCHANGED << segacrp2_vars, mfacpm_vars >>

\* the machine with a cassette that records or is stopped
NextRecord ==
  \/ mfabfz_state_machine_reset
  \/ uart_clock
  \/ txd_handler
  \/ cassette_record

SpecRecord == InitMfabfz /\ [][NextRecord]_vars

\* the machine with a cassette that plays or is stopped
NextPlay ==
  \/ mfabfz_state_machine_reset
  \/ uart_clock
  \/ txd_handler
  \/ cassette_play
  \/ cassette_input

SpecPlay == InitMfabfz /\ [][NextPlay]_vars

------------------------------------------------------------------------------
(* Vocabulary of the properties *)

\* the addresses 0..0x7FFF
Addrs == 0..32767

\* the device has started: decrypt() has returned
Started == pc = "started"

\* the byte the ROM region held at index a before the call of decode
PreRom(a) == RomImage(image, a)

\* the 6-bit number whose bits 5..0 are bits 14, 12, 9, 6, 3, 0 of a
RowSpec(a) ==
  32 * Bit(a, 14) + 16 * Bit(a, 12) + 8 * Bit(a, 9) + 4 * Bit(a, 6)
    + 2 * Bit(a, 3) + Bit(a, 0)

\* P(src) for the 4-tuple p: bits 7, 5, 3, 1 of src in place, bit 6 = src bit
\* p0, bit 4 = src bit p1, bit 2 = src bit p2, bit 0 = src bit p3
Placed(src, p) ==
  128 * Bit(src, 7) + 64 * Bit(src, p[1]) + 32 * Bit(src, 5) + 16 * Bit(src, p[2])
    + 8 * Bit(src, 3) + 4 * Bit(src, p[3]) + 2 * Bit(src, 1) + Bit(src, p[4])

\* RowSpec and Placed, tabulated over the addresses (by pages of 256) and over
\* the catalogue
RowSpecTab == [p \in 0..127 |-> [o \in 0..255 |-> RowSpec(256 * p + o)]]

PlacedTab ==
  [t \in 1..Len(swaptable) |-> [src \in Byte |-> Placed(src, swaptable[t])]]

\* P(src) XOR xorTable[i], with the permutation swaptable[selectorTable[i]],
\* for the tables decode was called with
Decoded(src, i) ==
  Xor(PlacedTab[At(key_swap, i) + 1][src], At(key_xor, i))

------------------------------------------------------------------------------
(* C1: opcode path.  After decode, for every address a in 0..0x7FFF,       *)
(* decrypted[a] = P(src) XOR xorTable[2*row(a)], where src is the pre-call *)
(* rom[a] and P places the bits of src by swaptable[selectorTable[2*row(a)]]. *)
C1_OpcodePath ==
  Started =>
    \A a \in Addrs : Rd(decrypted, a) = Decoded(PreRom(a), 2 * Rd(RowSpecTab, a))

\* a started device whose opcode decoding of a row-63 byte differs from the byte
C1_Witness ==
  /\ Started
  /\ \E a \in Addrs : RowSpec(a) = 63 /\ Rd(decrypted, a) # PreRom(a)

(* C2: data path.  After decode, for every address a in 0..0x7FFF, rom[a] = *)
(* P'(src) XOR xorTable[2*row(a)+1], where src is the ORIGINAL pre-call     *)
(* rom[a] and P' places the bits by swaptable[selectorTable[2*row(a)+1]]:   *)
(* neither the opcode result nor an overwritten rom byte is decoded.        *)
C2_DataPath ==
  Started =>
    \A a \in Addrs : Rd(rom, a) = Decoded(PreRom(a), 2 * Rd(RowSpecTab, a) + 1)

\* a started device whose data decoding of some byte differs from both the
\* byte and its opcode decoding
C2_Witness ==
  /\ Started
  /\ \E a \in Addrs : Rd(rom, a) # PreRom(a) /\ Rd(rom, a) # Rd(decrypted, a)

(* C3: row selection.  For every address a in 0..0x7FFF the row decode     *)
(* computes is the 6-bit number whose bits 5,4,3,2,1,0 are bits            *)
(* 14,12,9,6,3,0 of a, so it is in 0..63.                                  *)
C3_RowSelection ==
  Started =>
    \A a \in Addrs :
      LET r == Rd(rows, a)
      IN /\ r \in 0..63
         /\ Bit(r, 5) = Bit(a, 14)
         /\ Bit(r, 4) = Bit(a, 12)
         /\ Bit(r, 3) = Bit(a, 9)
         /\ Bit(r, 2) = Bit(a, 6)
         /\ Bit(r, 1) = Bit(a, 3)
         /\ Bit(r, 0) = Bit(a, 0)

\* a started device that computed row 63 at 0x5249 and row 0 at 0x2DB6
C3_Witness ==
  /\ Started
  /\ Rd(rows, 21065) = 63
  /\ Rd(rows, 11702) = 0

(* C4: full-buffer coverage.  One call of decode ends after exactly 32768  *)
(* loop iterations, having stored exactly once to decrypted[a] and exactly *)
(* once to rom[a] for every address a in 0..0x7FFF.                        *)
C4_FullCoverage ==
  Started =>
    /\ iters = 32768
    /\ \A a \in Addrs : Rd(wr_dec, a) = 1 /\ Rd(wr_rom, a) = 1

\* a started device: decode has returned, with stores made at both ends
C4_Witness ==
  /\ Started
  /\ iters > 0
  /\ Rd(wr_dec, 0) > 0
  /\ Rd(wr_rom, 32767) > 0

(* C5: row independence.  For two pre-call rom images that differ only at *)
(* address q (same device, same key), the decrypted and rom buffers left   *)
(* by the two runs are equal at every index other than q.  The second run  *)
(* starts from the image of this run with the byte at q inverted, where q  *)
(* is 0x5249 for the images of even number and 1 for the others; what      *)
(* m_decrypted held before is the same in both runs, and is taken to be 0. *)
(* The pairs compared are those of image 0, for every device.              *)
PokedAddr(s) == IF s % 2 = 0 THEN 21065 ELSE 1

\* what decrypt() leaves when the ROM image differs at q only
PokedRun(q) ==
  decrypt(dev, [StartRegions(image, fill) EXCEPT !.rom = Wr(@, q, 255 - PreRom(q))])

C5_RowIndependence ==
  (Started /\ fill = 0 /\ image = 0) =>
    \E q \in { PokedAddr(image) } :
      \E other \in { PokedRun(q) } :
        \A a \in 0..(BufLen - 1) :
          a # q => /\ Rd(other.decrypted, a) = Rd(decrypted, a)
                   /\ Rd(other.rom, a) = Rd(rom, a)

\* a started device for which the changed byte does change both outputs at q
C5_Witness ==
  /\ Started
  /\ fill = 0
  /\ image = 0
  /\ PokedAddr(image) = 21065
  /\ \E other \in { PokedRun(21065) } :
       /\ Rd(other.decrypted, 21065) # Rd(decrypted, 21065)
       /\ Rd(other.rom, 21065) # Rd(rom, 21065)

(* C6: address-bit selection.  Two addresses in 0..0x7FFF that differ only *)
(* in bits outside {0,3,6,9,12,14} get the same row, and so equal source   *)
(* bytes at them give equal decrypted bytes and equal rom bytes.  Every    *)
(* address a is compared with the address that keeps only its six row bits *)
(* (so any two addresses with the same row bits have the row of that one)  *)
(* and with the address that clears its bits 8, 10, 11, 13.                *)
RowBitsOnly(a) ==
  16384 * Bit(a, 14) + 4096 * Bit(a, 12) + 512 * Bit(a, 9) + 64 * Bit(a, 6)
    + 8 * Bit(a, 3) + Bit(a, 0)

UpperCleared(a) ==
  a - 8192 * Bit(a, 13) - 2048 * Bit(a, 11) - 1024 * Bit(a, 10) - 256 * Bit(a, 8)

\* the two, tabulated by pages of 256 addresses
RowBitsOnlyTab == [p \in 0..127 |-> [o \in 0..255 |-> RowBitsOnly(256 * p + o)]]

UpperClearedTab == [p \in 0..127 |-> [o \in 0..255 |-> UpperCleared(256 * p + o)]]

\* same row at a and b, and the same outputs if the source bytes were equal
SameRowSameBytes(a, b) ==
  /\ Rd(rows, a) = Rd(rows, b)
  /\ PreRom(a) = PreRom(b) =>
       /\ Rd(decrypted, a) = Rd(decrypted, b)
       /\ Rd(rom, a) = Rd(rom, b)

C6_AddressBits ==
  Started =>
    \A a \in Addrs :
      /\ SameRowSameBytes(a, Rd(RowBitsOnlyTab, a))
      /\ SameRowSameBytes(a, Rd(UpperClearedTab, a))

\* a started device with two addresses that differ in bits 8,10,11,13 only,
\* hold the same source byte, and were both changed by the decoding
C6_Witness ==
  /\ Started
  /\ \E a \in {11593} :
       /\ UpperCleared(a) = 73
       /\ PreRom(a) = PreRom(73)
       /\ Rd(rows, a) = Rd(rows, 73)
       /\ Rd(decrypted, a) = Rd(decrypted, 73)
       /\ Rd(decrypted, a) # PreRom(a)
       /\ Rd(rom, a) # PreRom(a)

(* C7: permutation catalogue validity.  swaptable has 24 entries, each a   *)
(* 4-tuple holding each of 0,2,4,6 exactly once, and the 24 tuples are     *)
(* pairwise distinct; so is, in particular, every tuple the key of a       *)
(* started device selects.                                                 *)
C7_Catalogue ==
  /\ Len(swaptable) = 24
  /\ \A i \in 1..Len(swaptable) :
       /\ Len(swaptable[i]) = 4
       /\ { swaptable[i][j] : j \in 1..4 } = {0, 2, 4, 6}
  /\ \A i, j \in 1..Len(swaptable) : i # j => swaptable[i] # swaptable[j]
  /\ Started =>
       \A i \in 0..127 :
         { swaptable[At(key_swap, i) + 1][j] : j \in 1..4 } = {0, 2, 4, 6}

\* a started device whose key selects the first and the last entry of the
\* catalogue
C7_Witness ==
  /\ Started
  /\ \E i, j \in 0..127 : At(key_swap, i) = 0 /\ At(key_swap, j) = 23

(* C8: shift-family relationship.  With eff_k[i] = master[i+k] the tables  *)
(* sega_decode_317 passes to decode with shift k, for k in {0,1,2}:        *)
(* eff_(k+1)[i] = eff_k[i+1] for i in 0..126 and eff_(k+1)[127] =          *)
(* master[128+k].  Stated of the device started with shift k+1, whose      *)
(* tables are the ones decode recorded.                                    *)
FamilyShift ==
  [d \in {"sega_317_0004", "sega_317_0005", "sega_317_0006", "sega_317_0007"} |->
     CASE d = "sega_317_0004" -> 0
       [] d = "sega_317_0005" -> 1
       [] d = "sega_317_0006" -> 2
       [] d = "sega_317_0007" -> 3]

C8_ShiftFamily ==
  (Started /\ dev \in DOMAIN FamilyShift /\ FamilyShift[dev] >= 1) =>
    \E k \in { FamilyShift[dev] - 1 } :
      /\ k \in {0, 1, 2}
      /\ \A i \in 0..127 :
           /\ At(sega_317_tables(k).xor_table, i) = xor_table_317[i + k + 1]
           /\ At(sega_317_tables(k).swap_table, i) = swap_table_317[i + k + 1]
      /\ \A i \in 0..126 :
           /\ At(key_xor, i) = At(sega_317_tables(k).xor_table, i + 1)
           /\ At(key_swap, i) = At(sega_317_tables(k).swap_table, i + 1)
      /\ At(key_xor, 127) = xor_table_317[128 + k + 1]
      /\ At(key_swap, 127) = swap_table_317[128 + k + 1]

\* the device with shift 3 has started: its tables end with the last entries
\* of the master tables, which the device with shift 2 does not reach
C8_Witness ==
  /\ Started
  /\ dev = "sega_317_0007"
  /\ At(key_xor, 127) = xor_table_317[Len(xor_table_317)]
  /\ At(key_swap, 0) # At(sega_317_tables(2).swap_table, 0)

(* C9: frame.  decode stores only to rom[0..0x7FFF] and                    *)
(* decrypted[0..0x7FFF]: every byte of either buffer at an index >= 0x8000 *)
(* is as before the call, and no store was made there.                     *)
C9_Frame ==
  Started =>
    \A a \in 32768..(BufLen - 1) :
      /\ Rd(rom, a) = PreRom(a)
      /\ Rd(decrypted, a) = fill
      /\ Rd(wr_rom, a) = 0
      /\ Rd(wr_dec, a) = 0

\* a started device whose buffers changed at 0x7FFF and have bytes past it
C9_Witness ==
  /\ Started
  /\ BufLen > 32768
  /\ Rd(wr_rom, 32767) = 1
  /\ Rd(decrypted, 32767) # fill

(* C10: determinism.  For a fixed key, two runs of decode started from     *)
(* equal rom contents end with equal decrypted and equal rom contents,     *)
(* whatever decrypted held before.  The two runs of a pair start from the  *)
(* same image with m_decrypted filled with 0 in the one and with 0xFF in   *)
(* the other; the pair is compared from its run that started with 0, for   *)
(* every device and the image of the highest number.                       *)
OtherFillRun(f) == decrypt(dev, StartRegions(image, f))

C10_Determinism ==
  (Started /\ fill = 0 /\ image = NumImages - 1) =>
    \E other \in { OtherFillRun(255) } :
      \A a \in Addrs :
        /\ Rd(other.decrypted, a) = Rd(decrypted, a)
        /\ Rd(other.rom, a) = Rd(rom, a)

\* a started device of such a pair: the two runs started from m_decrypted
\* contents that differ at an address where decode stored another byte than
\* either
C10_Witness ==
  /\ Started
  /\ fill = 0
  /\ image = NumImages - 1
  /\ \E a \in {21065} :
       /\ Rd(StartRegions(image, 255).decrypted, a) # Rd(StartRegions(image, 0).decrypted, a)
       /\ Rd(decrypted, a) \notin {0, 255}

\* the key decode was called with is the one the decrypt() of device d supplies
KeyIsOf(d) ==
  /\ key_xor = tables_of(d).xor_table
  /\ key_swap = tables_of(d).swap_table

\* the started device has run the loop of the shared decode, once, over a
\* 128-entry window of tables that no other device type supplies
CallsThroughWithOwnKey ==
  Started =>
    /\ iters = LoopEnd
    /\ Len(key_xor.arr) - key_xor.off >= TableLen
    /\ Len(key_swap.arr) - key_swap.off >= TableLen
    /\ \A d \in Devices : KeyIsOf(d) <=> d = dev

(* C11, as stated: the variant key catalogue contains exactly 11 hardware  *)
(* variants, each of which supplies its own key tables (or master table    *)
(* plus offset) and calls through to the single shared decode.             *)
C11_ElevenVariants ==
  /\ dev \in Devices
  /\ Cardinality(Devices) = 11
  /\ CallsThroughWithOwnKey

(* C11, amended: the catalogue contains exactly 10 device variants (the    *)
(* part number 317-5000 of the header has the key of 315-5177 and no       *)
(* device type of its own); each supplies its own key tables (or master    *)
(* table plus offset) and calls through to the single shared decode.       *)
C11_TenVariants ==
  /\ dev \in Devices
  /\ Cardinality(Devices) = 10
  /\ CallsThroughWithOwnKey

\* the device also seen as 317-5000 has started, decoded with its own key
C11_Witness ==
  /\ Started
  /\ dev = "sega_315_5177"
  /\ KeyIsOf("sega_315_5177")
  /\ ~KeyIsOf("sega_315_5176")
  /\ iters = LoopEnd

(* C12, as stated: a malformed input (a rom or decrypted buffer whose      *)
(* length is not 0x8000, a selector outside 0..23, a window that runs past *)
(* the master table) is rejected when the tables or buffers are bound,     *)
(* before the loop reads or writes a byte, and leaves both buffers         *)
(* unchanged.  The buffers of every configuration hold BufLen bytes.       *)
C12_RejectedAtBind ==
  (BufLen # LoopEnd) =>
    /\ ~Started
    /\ iters = 0
    /\ rom = LoadedImages[image]
    /\ decrypted = FilledWith[fill]

(* C12, amended: nothing is rejected, at bind time or in the loop.  A      *)
(* buffer of more than 0x8000 bytes is accepted: the start ends with the   *)
(* loop run over 0..0x7FFF and the bytes past it unchanged.  The key each  *)
(* device binds is well formed as compiled in: its 128-entry window lies   *)
(* inside the table and its selectors are in 0..23.                        *)
C12_NothingRejected ==
  /\ pc \in {"configured", "z80_started", "started"}
  /\ Started =>
       /\ BufLen > LoopEnd
       /\ iters = LoopEnd
       /\ Rd(wr_dec, 0) = 1 /\ Rd(wr_rom, 0) = 1
       /\ Rd(wr_dec, LoopEnd - 1) = 1 /\ Rd(wr_rom, LoopEnd - 1) = 1
       /\ Rd(rom, LoopEnd) = PreRom(LoopEnd)
       /\ Rd(decrypted, LoopEnd) = fill
       /\ key_xor.off + TableLen <= Len(key_xor.arr)
       /\ key_swap.off + TableLen <= Len(key_swap.arr)
       /\ \A i \in 0..(TableLen - 1) : At(key_swap, i) \in 0..23

\* a device whose buffers hold more than 0x8000 bytes has started, with the
\* first byte of both buffers changed
C12_Witness ==
  /\ Started
  /\ BufLen > LoopEnd
  /\ iters = LoopEnd
  /\ Rd(rom, 0) # PreRom(0)
  /\ Rd(decrypted, 0) # fill

(* C13: device start runs the base CPU start and then decrypt() exactly    *)
(* once, and nothing else invokes decode: before the base start and        *)
(* between it and decrypt() no iteration of the loop has run and no table  *)
(* is bound; from the end of the start on, the loop has run 0x8000         *)
(* iterations in all, every address was stored to once in each buffer, and *)
(* the bound key is the device's.                                          *)
C13_SingleInvocation ==
  /\ pc \in {"configured", "z80_started"} =>
       /\ iters = 0
       /\ key_xor = NoTable /\ key_swap = NoTable
       /\ rom = LoadedImages[image]
  /\ pc \notin {"configured", "z80_started"} =>
       /\ pc = "started"
       /\ iters = LoopEnd
       /\ KeyIsOf(dev)
       /\ \A p \in 0..((LoopEnd - 1) \div 256) : \A o \in 0..255 :
            wr_rom[p][o] = 1 /\ wr_dec[p][o] = 1

\* a started device: decrypt() has run once after the base start
C13_Witness ==
  /\ Started
  /\ iters = LoopEnd
  /\ KeyIsOf(dev)
  /\ Rd(wr_rom, 12345) = 1
  /\ Rd(rom, 12345) # PreRom(12345)

(* C14: with rom[0] = 0xAA before the call (address 0, row 0), every       *)
(* device's decode leaves decrypted[0] = 0xAA XOR xor_table[0] and         *)
(* rom[0] = 0xAA XOR xor_table[1]: 0xAA and 0xEA for 315-5136, 0xAE and    *)
(* 0xFE for 317-0004.                                                      *)
C14_ConcreteScenario ==
  (Started /\ PreRom(0) = 170) =>
    /\ Rd(rows, 0) = 0
    /\ Rd(decrypted, 0) = Xor(170, tables_of(dev).xor_table.arr[tables_of(dev).xor_table.off + 1])
    /\ Rd(rom, 0) = Xor(170, tables_of(dev).xor_table.arr[tables_of(dev).xor_table.off + 2])
    /\ dev = "nec_315_5136" => Rd(decrypted, 0) = 170 /\ Rd(rom, 0) = 234
    /\ dev = "sega_317_0004" => Rd(decrypted, 0) = 174 /\ Rd(rom, 0) = 254

\* the 317-0004 has decoded an image whose first byte was 0xAA
C14_Witness ==
  /\ Started
  /\ PreRom(0) = 170
  /\ dev = "sega_317_0004"
  /\ Rd(decrypted, 0) = 174
  /\ Rd(rom, 0) = 254

(* C15: index safety.  In every loop body, for every device and row, the   *)
(* indices 2*row and 2*row+1 are at most 127, and together with the offset *)
(* of the device's window they stay inside the table the window is cut     *)
(* from: at most 127 in a table of a device's own, at most 130 in the      *)
(* shared master; every selector read from swap_table is in 0..23, a row   *)
(* of swaptable.                                                           *)
C15_IndexSafety ==
  pc \in {"row", "stored"} =>
    /\ body.row \in 0..63
    /\ \A i \in {2 * body.row, 2 * body.row + 1} :
         /\ i <= 127
         /\ key_xor.off + i < Len(key_xor.arr)
         /\ key_swap.off + i < Len(key_swap.arr)
         /\ key_xor.off + i <= (IF dev \in DOMAIN FamilyShift THEN 130 ELSE 127)
         /\ key_swap.off + i <= (IF dev \in DOMAIN FamilyShift THEN 130 ELSE 127)
    /\ pc = "stored" =>
         /\ body.tbl_opcode \in 0..23
         /\ body.tbl_data \in 0..23
         /\ body.tbl_data < Len(swaptable)
         /\ body.tbl_opcode < Len(swaptable)

\* the 317-0007 has read the last entry of the master table, in row 63
C15_Witness ==
  /\ pc = "stored"
  /\ dev = "sega_317_0007"
  /\ body.row = 63
  /\ key_xor.off + 2 * body.row + 1 = 130
  /\ body.tbl_data \in 0..23
  /\ body.data \in Byte

(* C16: the family that shares the master table has exactly four members,  *)
(* with pairwise distinct offsets: 317-0004 -> 0, 317-0005 -> 1,           *)
(* 317-0006 -> 2, 317-0007 -> 3; each of them passes the master tables at  *)
(* its offset.  Every other device passes 128-entry tables of its own, at  *)
(* offset 0, that no other device passes.                                  *)
SharesMaster(d) ==
  /\ tables_of(d).xor_table.arr = xor_table_317
  /\ tables_of(d).swap_table.arr = swap_table_317

OddPart(b) == 2 * Bit(b, 1) + 8 * Bit(b, 3) + 32 * Bit(b, 5) + 128 * Bit(b, 7)

OddPartTab == [b \in Byte |-> OddPart(b)]

\* the XOR values with no bit outside 0x55
EvenMasks == { m \in Byte : OddPart(m) = 0 }

C17_EvenBitsOnly ==
  pc = "stored" =>
    /\ OddPartTab[body.opcode] = OddPartTab[body.src]
    /\ OddPartTab[body.data] = OddPartTab[body.src]
    /\ \A i \in {2 * body.row, 2 * body.row + 1} :
         /\ OddPartTab[At(key_xor, i)] = 0
         /\ At(key_xor, i) \in EvenMasks
         /\ At(key_swap, i) \in 0..23
    /\ Cardinality(EvenMasks) = 16
    /\ Len(swaptable) * Cardinality(EvenMasks) = 384

\* a body has stored two bytes that differ from src = 0xFF in even bits only
C17_Witness ==
  /\ pc = "stored"
  /\ body.src = 255
  /\ body.opcode # 255
  /\ body.data # 255
  /\ OddPartTab[body.opcode] = 170
  /\ OddPartTab[body.data] = 170

(* C18: invertibility.  With P_s the swap of selector s and                *)
(* T_{s,x}(b) = P_s(b) XOR x: for every selector s in 0..23 and XOR value  *)
(* x there is a selector s' with P_{s'}(T_{s,x}(b) XOR x) = b for every    *)
(* byte b, so T_{s,x} is a bijection on 0..255; applying T_{s,x} twice     *)
(* returns b for every b exactly when P_s(P_s(b)) XOR P_s(x) XOR x = b for *)
(* every b, as it is for the tuple (6,4,2,0).                              *)
\* the selectors whose swap undoes the swap of s on every byte
InverseSelectors ==
  [s \in 0..(Len(swaptable) - 1) |->
     { t \in 0..(Len(swaptable) - 1) : \A b \in Byte : SwapTab[t][SwapTab[s][b]] = b }]

TwiceIsIdentity(s, x) ==
  \A b \in Byte :
    decode_byte(decode_byte(b, s, Ptr(<<x>>, 0), 0), s, Ptr(<<x>>, 0), 0) = b

TwiceCondition(s, x) ==
  \A b \in Byte : Xor(Xor(SwapTab[s][SwapTab[s][b]], SwapTab[s][x]), x) = b

C18_Invertibility ==
  pc \in {"transformed", "transformed_twice"} =>
    \E s \in { At(key_swap, 0) } : \E x \in { At(key_xor, 0) } :
      /\ body.opcode = Xor(SwapTab[s][body.src], x)
      /\ InverseSelectors[s] # {}
      /\ \A t \in InverseSelectors[s] : SwapTab[t][Xor(body.opcode, x)] = body.src
      /\ body.src = 0 =>
           /\ Cardinality({ decode_byte(b, s, key_xor, 0) : b \in Byte }) = 256
           /\ TwiceIsIdentity(s, x) <=> TwiceCondition(s, x)
           /\ swaptable[s + 1] = <<6, 4, 2, 0>> => TwiceIsIdentity(s, x)
      /\ pc = "transformed_twice" =>
           (TwiceIsIdentity(s, x) => body.data = body.src)

\* a transform whose selector is not the tuple (6,4,2,0) and is not undone
\* by itself was applied twice and did not return the byte; its inverse
\* selector is another one
C18_Witness ==
  /\ pc = "transformed_twice"
  /\ swaptable[At(key_swap, 0) + 1] # <<6, 4, 2, 0>>
  /\ At(key_swap, 0) \notin InverseSelectors[At(key_swap, 0)]
  /\ body.data # body.src
  /\ At(key_xor, 0) = 20
  /\ \E t \in InverseSelectors[At(key_swap, 0)] :
       SwapTab[t][Xor(body.opcode, At(key_xor, 0))] = body.src

(* C19: two distinct decodings.  For every device and every row r in       *)
(* 0..63 the opcode transform (swap_table[2r], xor_table[2r]) and the data *)
(* transform (swap_table[2r+1], xor_table[2r+1]) are different byte        *)
(* functions: at every address there is a source byte for which the byte   *)
(* stored to decrypted[a] differs from the byte stored to rom[a].          *)
OpcodeOf(b) == decode_byte(b, tbl_of(key_swap, 2 * body.row), key_xor, 2 * body.row)

DataOf(b) == decode_byte(b, tbl_of(key_swap, 2 * body.row + 1), key_xor, 2 * body.row + 1)

C19_TwoDecodings ==
  pc = "stored" =>
    /\ body.opcode = OpcodeOf(body.src)
    /\ body.data = DataOf(body.src)
    /\ \E b \in Byte : OpcodeOf(b) # DataOf(b)

\* a body of row 63 has stored two different bytes
C19_Witness ==
  /\ pc = "stored"
  /\ body.row = 63
  /\ body.opcode # body.data

(* C20: coupling inside the shift family.  For k in {0, 1, 2}, every       *)
(* address a and every source byte: the opcode decoding made with shift    *)
(* k+1 (the byte stored to decrypted[a]) is the data decoding made with    *)
(* shift k (the byte stored to rom[a]); and where row(a) < 63 the data     *)
(* decoding made with shift k+1 is the opcode decoding that shift k makes  *)
(* at an address of row row(a)+1.                                          *)
\* the member of the family that passes shift k
MemberOfShift ==
  [k \in 0..3 |-> CHOOSE d \in DOMAIN FamilyShift : FamilyShift[d] = k]

\* the addresses of each row at which bodies are taken
AddrsOfRow == [r \in 0..63 |-> { a \in BodyAddrs : row_of(a) = r }]

\* the two decodings of byte b at address a by the body of device d
OpcodeBy(d, a, b) ==
  decode_byte(b, tbl_of(tables_of(d).swap_table, 2 * row_of(a)),
              tables_of(d).xor_table, 2 * row_of(a))

DataBy(d, a, b) ==
  decode_byte(b, tbl_of(tables_of(d).swap_table, 2 * row_of(a) + 1),
              tables_of(d).xor_table, 2 * row_of(a) + 1)

C20_FamilyCoupling ==
  (pc = "stored" /\ dev \in DOMAIN FamilyShift /\ FamilyShift[dev] >= 1) =>
    \E lower \in { MemberOfShift[FamilyShift[dev] - 1] } :
      /\ body.opcode = DataBy(lower, body.a, body.src)
      /\ body.row < 63 =>
           /\ AddrsOfRow[body.row + 1] # {}
           /\ \A a2 \in AddrsOfRow[body.row + 1] :
                body.data = OpcodeBy(lower, a2, body.src)

\* a body of the 317-0005 in row 10 has stored an opcode byte, different
\* from its data byte, that is the data byte of the 317-0004
C20_Witness ==
  /\ pc = "stored"
  /\ dev = "sega_317_0005"
  /\ body.row = 10
  /\ body.opcode # body.data
  /\ body.opcode = DataBy("sega_317_0004", body.a, body.src)
  /\ body.opcode # OpcodeBy("sega_317_0004", body.a, body.src)

-------------------------------------------------------------------------------
(* C21: the banking of the boot ROM of mfacpm *)

\* the last access was a read of the CPU below the boundary
ReadBelowBoundary(a, bank) ==
  \/ a.op = "bootview_r"
  \/ a.op = "ram_r" /\ a.offset < bank

-------------------------------------------------------------------------------
(* C22: the wave kansas_w writes while the cassette records *)

\* the ticks of a period of 64, counted from 0, at which the level toggles
WaveToggles(b) == IF b = 1 THEN <<0, 10, 21, 32, 42, 53>> ELSE <<0, 16, 32, 48>>

\* the toggles of WaveToggles(b) before tick n
TogglesBefore(b, n) ==
  SubSeq(WaveToggles(b), 1, Cardinality({ i \in 1..Len(WaveToggles(b)) : WaveToggles(b)[i] < n }))

\* the distances between the toggles of a period and the first one of the next
Gaps(toggles) ==
  [i \in 1..Len(toggles) |-> (IF i < Len(toggles) THEN toggles[i + 1] ELSE 64) - toggles[i]]

\* C22: counting the calls of kansas_w with state = 1 while the cassette
\* records, m_cassold takes the bit of the UART on the ticks with
\* m_cass_data[3] mod 64 = 0 and on no other tick, and the level toggles on
\* each of those ticks; in the 64 ticks of a period the level toggles exactly
\* 4 times, every 16 ticks, when the latched bit is 0, and exactly 6 times,
\* 10, 11, 11, 10, 11 and 11 ticks apart, when it is 1; m_cass_data[2] is
\* never decremented at 0 and m_cass_data[4] stays in 0..2.
C22_EncoderWave ==
  /\ m_cass_data[4] \in 0..2
  /\ m_cass_data[2] \in 0..15
  /\ enc.twobit # -1 =>
       /\ enc.dec_from >= 1
       /\ enc.twobit = 0 => m_cassold = enc.outbit_before /\ enc.toggled /\ enc.ticks = 1
       /\ enc.twobit # 0 => m_cassold = enc.old_before
       /\ enc.ticks = enc.twobit + 1
       /\ enc.toggles = TogglesBefore(m_cassold, enc.ticks)
       /\ enc.ticks = 64 =>
            /\ Len(enc.toggles) = IF m_cassold = 1 THEN 6 ELSE 4
            /\ Gaps(enc.toggles) = IF m_cassold = 1 THEN <<10, 11, 11, 10, 11, 11>>
                                   ELSE <<16, 16, 16, 16>>
       /\ enc.toggled /\ enc.gap > 0 =>
            enc.gap \in IF enc.gap_bit = 1 THEN {10, 11} ELSE {16}

\* the second period since the reset is complete, and was one of a 1 bit
C22_Witness ==
  /\ cass_state = "record"
  /\ enc.ticks = 64
  /\ m_cassold = 1
  /\ Len(enc.toggles) = 6
  /\ m_cass_data[3] = 128

-------------------------------------------------------------------------------
(* C23: the bit kansas_r reads from the wave while the cassette plays *)

\* the machine after machine_reset, recording, with the UART sending the bit b
Recording(b) ==
  [data |-> [i \in 0..4 |-> 0], outbit |-> b, bit |-> 1, old |-> 1,
   state |-> "record", ws |-> 0, output |-> 0,
   rxd |-> 1, txc |-> 0, rxc |-> 0, enc |-> NoEnc, dec |-> NoDec]

\* the distances between the toggles kansas_w makes in n ticks counted from c
RECURSIVE emitted(_, _)
emitted(c, n) ==
  IF n = 0 THEN {}
  ELSE LET d == kansas_w(1, c)
       IN  (IF d.enc.toggled /\ d.enc.gap > 0 THEN {d.enc.gap} ELSE {}) \cup emitted(d, n - 1)

\* the distances between the toggles of a period of the bit b, the toggle
\* that begins the next period included
EmittedGaps(b) == emitted(Recording(b), 65)

\* C23: counting the calls of kansas_r with state = 1, m_cass_data[1] stays
\* in 0..32; while the cassette plays, rxd is 1 after a tick that is more
\* than 32 ticks from the last transition of the input and sees none, and a
\* tick that sees a transition writes rxd = 1 if fewer than 14 ticks have
\* passed since the previous transition and rxd = 0 otherwise; so the
\* distances kansas_w leaves between the toggles of a 1 bit, 10 and 11 ticks,
\* are read as 1 and the distance it leaves between those of a 0 bit, 16
\* ticks, is read as 0.
C23_DecoderAgrees ==
  /\ m_cass_data[1] \in 0..32
  /\ dec.counted /\ dec.playing /\ ~dec.transition /\ dec.elapsed > 32 => uart_rxd = 1
  /\ dec.counted /\ dec.playing /\ dec.transition =>
       /\ uart_rxd = IF dec.elapsed < 14 THEN 1 ELSE 0
       /\ dec.writes # << >> /\ dec.writes[Len(dec.writes)] = uart_rxd
       /\ m_cass_data[1] = 0
       /\ EmittedGaps(1) = {10, 11}
       /\ EmittedGaps(0) = {16}
       /\ \A b \in {0, 1} : dec.elapsed \in EmittedGaps(b) => uart_rxd = b

\* a transition 11 ticks after the previous one has been read as 1 from the
\* playing cassette
C23_Witness ==
  /\ cass_state = "play"
  /\ dec.transition
  /\ dec.elapsed = 11
  /\ dec.writes = <<1>>
  /\ uart_rxd = 1
  /\ m_cass_data[0] = 0

====
